---- MODULE Spec2Model ----
(***************************************************************************)
(* The voice-leading optimizer of src/utils/theory-functions.ts.           *)
(*                                                                         *)
(* Note objects are shared by reference between the caller's arrays and    *)
(* the chords and are mutated in place, so a note is an identity (its      *)
(* index in [...melodyNotes, ...harmonyNotes]) and `heap` maps identities  *)
(* to the object's current fields.  Arrays of notes are sequences of       *)
(* identities.                                                             *)
(***************************************************************************)
EXTENDS Integers, Sequences, FiniteSets, TLC

\* ---------------------------------------------------------------- bounds
MaxNotes == 4                 \* melody and harmony notes together
Pitches == {60, 67, 96}       \* a fifth, a gap of 29 and a gap of 36 = 3 * 12
Positions == {0, 1}
Durations == {8}
HighPitches == {120, 127}   \* the top of the MIDI range 0..127
LongPitches == {60, 96}       \* pieces of three chords: a gap of 36 = 3 * 12
LongPositions == {0, 1, 2}
FirstHarmony == {60, 64, 67}  \* Scenario A: C major under the melody's 72
SecondHarmony == {57, 65, 69} \* Scenario B: the harmony under the melody's 74

\* -------------------------------------------------------------- the types
Undefined == -1               \* the absent optional field voice?: number

NoteValues == [pitch : Pitches, position : Positions, duration : Durations]

RECURSIVE SeqsUpTo(_, _)
SeqsUpTo(S, n) ==
    IF n <= 0 THEN {<<>>}
    ELSE SeqsUpTo(S, n - 1) \cup [1..n -> S]

VARIABLES
    pc,            \* the statement of optimizeVoiceLeading to run next
    melodyNotes,   \* the melodyNotes argument: identities of its objects
    harmonyNotes,  \* the harmonyNotes argument: identities of its objects
    input,         \* the objects' fields when optimizeVoiceLeading was called
    heap,          \* the objects' fields now
    chords,        \* const chords: position, notes (identities), duration
    numVoices,     \* const numVoices
    i,             \* the loop variable of the for loop
    result,        \* the returned array (copies of the notes)
    adjustOctavesCalls, \* the chords (by index) adjustOctaves was called on, in call order
    layers,        \* the dialog's layers: layer id -> its notes (NoteData)
    controls       \* useControls: its refs, the contexts' values and the playback loops

vars == <<pc, melodyNotes, harmonyNotes, input, heap, chords, numVoices, i, result,
          adjustOctavesCalls, layers, controls>>

\* ------------------------------------------------------- general helpers
Range(s) == {s[x] : x \in DOMAIN s}

Abs(x) == IF x < 0 THEN -x ELSE x

Min(S) == CHOOSE x \in S : \A y \in S : x <= y

Max(S) == CHOOSE x \in S : \A y \in S : x >= y

\* (note.voice || 0)
VoiceOr0(v) == IF v = Undefined THEN 0 ELSE v

\* Array.prototype.sort with comparator (a, b) => k[a] - k[b]; the sort is
\* stable, so equal keys keep their order.
RECURSIVE Insert(_, _, _)
Insert(sorted, x, k) ==
    IF sorted = <<>> THEN <<x>>
    ELSE IF k[Head(sorted)] <= k[x]
         THEN <<Head(sorted)>> \o Insert(Tail(sorted), x, k)
         ELSE <<x>> \o sorted

RECURSIVE SortByKey(_, _)
SortByKey(s, k) ==
    IF s = <<>> THEN <<>>
    ELSE Insert(SortByKey(SubSeq(s, 1, Len(s) - 1), k), s[Len(s)], k)

\* notes.sort((a, b) => (a.voice || 0) - (b.voice || 0))
SortByVoice(h, s) == SortByKey(s, [id \in DOMAIN h |-> VoiceOr0(h[id].voice)])

\* array.findIndex(n => n.voice === v): the first index, 0 when there is none
FindIndexByVoice(h, s, v) ==
    IF \E x \in DOMAIN s : h[s[x]].voice = v
    THEN Min({x \in DOMAIN s : h[s[x]].voice = v})
    ELSE 0

\* Array.from(set).sort((a, b) => a - b)
RECURSIVE SortedSeqOf(_)
SortedSeqOf(S) ==
    IF S = {} THEN <<>>
    ELSE <<Min(S)>> \o SortedSeqOf(S \ {Min(S)})

RECURSIVE SumSeq(_)
SumSeq(s) == IF s = <<>> THEN 0 ELSE Head(s) + SumSeq(Tail(s))

RECURSIVE Concat(_)
Concat(ss) == IF ss = <<>> THEN <<>> ELSE Head(ss) \o Concat(Tail(ss))

\* for (let i = 0; i < voices.length; i++) notes[i].voice = voices[i], from
\* index x on
RECURSIVE writeVoices(_, _, _, _)
writeVoices(h, notes, voices, x) ==
    IF x > Len(voices) THEN h
    ELSE writeVoices([h EXCEPT ![notes[x]].voice = voices[x]], notes, voices, x + 1)

\* note.voice !== undefined && note.voice !== 0
isHarmonyVoice(v) == v # Undefined /\ v # 0

\* for (const note of notes) if (harmony voice) note.pitch += by, from index x on
RECURSIVE shiftPitches(_, _, _, _)
shiftPitches(h, notes, by, x) ==
    IF x > Len(notes) THEN h
    ELSE shiftPitches(
             IF isHarmonyVoice(h[notes[x]].voice)
             THEN [h EXCEPT ![notes[x]].pitch = @ + by]
             ELSE h,
             notes, by, x + 1)

\* --------------------------------------------------------- identifyChords
\* A slip: the comparison of the positions left out of the melody test.
identifyChordsHeapByPitch(h, melody, harmony) ==
    LET allNotes == melody \o harmony
        IsMelody(id) == \E m \in Range(melody) : h[m].pitch = h[id].pitch
        tagged == SelectSeq(allNotes, IsMelody)
    IN  writeVoices(h, tagged, [x \in DOMAIN tagged |-> 0], 1)

\* The voice tags identifyChords puts on the notes: voice 0 on every note
\* whose pitch and position equal those of some melody note.
identifyChordsHeap(h, melody, harmony) ==
    LET allNotes == melody \o harmony
        IsMelody(id) ==
            \E m \in Range(melody) :
                h[m].pitch = h[id].pitch /\ h[m].position = h[id].position
        tagged == SelectSeq(allNotes, IsMelody)
    IN  writeVoices(h, tagged, [x \in DOMAIN tagged |-> 0], 1)

\* A slip: the positions left in the order of their first note, unsorted.
identifyChordsUnsorted(h, melody, harmony) ==
    LET allNotes == melody \o harmony
        firsts == SortedSeqOf({x \in DOMAIN allNotes :
                      \A y \in 1..(x - 1) : h[allNotes[y]].position # h[allNotes[x]].position})
        sortedPositions == [x \in DOMAIN firsts |-> h[allNotes[firsts[x]]].position]
    IN  [x \in DOMAIN sortedPositions |->
            LET position == sortedPositions[x]
                AtPosition(id) == h[id].position = position
            IN  [position |-> position,
                 notes |-> SelectSeq(allNotes, AtPosition),
                 duration |-> IF x + 1 \in DOMAIN sortedPositions
                              THEN sortedPositions[x + 1] - position
                              ELSE "Infinity"]]

\* The chords identifyChords returns: one per distinct position, ascending.
identifyChords(h, melody, harmony) ==
    LET allNotes == melody \o harmony
        sortedPositions == SortedSeqOf({h[id].position : id \in Range(allNotes)})
    IN  [x \in DOMAIN sortedPositions |->
            LET position == sortedPositions[x]
                AtPosition(id) == h[id].position = position
            IN  [position |-> position,
                 notes |-> SelectSeq(allNotes, AtPosition),
                 duration |-> IF x + 1 \in DOMAIN sortedPositions
                              THEN sortedPositions[x + 1] - position
                              ELSE "Infinity"]]

\* ---------------------------------------------------- determineVoiceCount
determineVoiceCount(cs) ==
    Max({0} \cup {Len(cs[x].notes) : x \in DOMAIN cs})

\* ----------------------------------------------- assignVoicesToFirstChord
\* A slip: the last remaining note numbered like the others, not numVoices - 1.
assignVoicesToFirstChordInSequence(h, chord, n) ==
    LET HasVoice0(id) == h[id].voice = 0
        Unassigned(id) == h[id].voice = Undefined
        melodyNote == SelectSeq(chord.notes, HasVoice0)
        remainingNotes ==
            SortByKey(SelectSeq(chord.notes, Unassigned),
                      [id \in DOMAIN h |-> 0 - h[id].pitch])
        firstVoice == IF melodyNote # <<>> THEN 1 ELSE 0
    IN  writeVoices(h, remainingNotes,
                    [x \in DOMAIN remainingNotes |-> firstVoice + (x - 1)],
                    1)

assignVoicesToFirstChord(h, chord, n) ==
    LET HasVoice0(id) == h[id].voice = 0
        Unassigned(id) == h[id].voice = Undefined
        melodyNote == SelectSeq(chord.notes, HasVoice0)
        remainingNotes ==
            SortByKey(SelectSeq(chord.notes, Unassigned),
                      [id \in DOMAIN h |-> 0 - h[id].pitch])
        firstVoice == IF melodyNote # <<>> THEN 1 ELSE 0
    IN  writeVoices(h, remainingNotes,
                    [x \in DOMAIN remainingNotes |->
                        IF x = Len(remainingNotes) THEN n - 1
                        ELSE firstVoice + (x - 1)],
                    1)

\* ------------------------------------------------ isParallelFifthOrOctave
isParallelFifthOrOctave(interval1, interval2) ==
    \/ interval1 % 12 = 7 /\ interval2 % 12 = 7
    \/ interval1 % 12 = 0 /\ interval2 % 12 = 0 /\ interval1 # 0

\* ---------------------------------------------- calculateVoiceLeadingCost
\* The notes after the function's own writes: assignedNotes[i].voice =
\* voiceAssignments[i] for the first voiceAssignments.length notes of the
\* chord (assignedNotes holds the chord's own objects).
calculateVoiceLeadingCostHeap(h, currentChord, voiceAssignments) ==
    writeVoices(h, currentChord.notes, voiceAssignments, 1)

\* A slip: <= for < in the comparison of the pitches.
crossingCostCountingEqualPitch(h, currentSorted) ==
    1000 * Cardinality({p \in (DOMAIN currentSorted) \X (DOMAIN currentSorted) :
        /\ p[1] < p[2]
        /\ VoiceOr0(h[currentSorted[p[1]]].voice) < VoiceOr0(h[currentSorted[p[2]]].voice)
        /\ h[currentSorted[p[1]]].pitch <= h[currentSorted[p[2]]].pitch})

crossingCost(h, currentSorted) ==
    1000 * Cardinality({p \in (DOMAIN currentSorted) \X (DOMAIN currentSorted) :
        /\ p[1] < p[2]
        /\ VoiceOr0(h[currentSorted[p[1]]].voice) < VoiceOr0(h[currentSorted[p[2]]].voice)
        /\ h[currentSorted[p[1]]].pitch < h[currentSorted[p[2]]].pitch})

spacingCost(h, currentSorted) ==
    100 * Cardinality({x \in 1..(Len(currentSorted) - 1) :
        h[currentSorted[x]].pitch - h[currentSorted[x + 1]].pitch > 12})

parallelCost(h, prevSorted, currentSorted) ==
    500 * Cardinality({p \in (DOMAIN prevSorted) \X (DOMAIN prevSorted) :
        /\ p[1] < p[2]
        /\ LET prevInterval ==
                   Abs(h[prevSorted[p[1]]].pitch - h[prevSorted[p[2]]].pitch)
               currentVoiceI ==
                   FindIndexByVoice(h, currentSorted, h[prevSorted[p[1]]].voice)
               currentVoiceJ ==
                   FindIndexByVoice(h, currentSorted, h[prevSorted[p[2]]].voice)
           IN  /\ currentVoiceI # 0
               /\ currentVoiceJ # 0
               /\ isParallelFifthOrOctave(prevInterval,
                      Abs(h[currentSorted[currentVoiceI]].pitch
                          - h[currentSorted[currentVoiceJ]].pitch))})

movementCost(h, prevSorted, currentSorted) ==
    SumSeq([x \in DOMAIN prevSorted |->
        LET currentVoiceIdx ==
                FindIndexByVoice(h, currentSorted, h[prevSorted[x]].voice)
        IN  IF currentVoiceIdx # 0
            THEN 2 * Abs(h[prevSorted[x]].pitch - h[currentSorted[currentVoiceIdx]].pitch)
            ELSE 0])

\* The number calculateVoiceLeadingCost returns.
calculateVoiceLeadingCost(h, prevChord, currentChord, voiceAssignments) ==
    LET h1 == calculateVoiceLeadingCostHeap(h, currentChord, voiceAssignments)
        prevSorted == SortByVoice(h1, prevChord.notes)
        currentSorted == SortByVoice(h1, currentChord.notes)
    IN  crossingCost(h1, currentSorted)
        + spacingCost(h1, currentSorted)
        + parallelCost(h1, prevSorted, currentSorted)
        + movementCost(h1, prevSorted, currentSorted)

\* --------------------------------------------------- generatePermutations
RECURSIVE backtrack(_, _, _)
RECURSIVE backtrackLoop(_, _, _, _)
backtrack(array, k, current) ==
    IF Len(current) = k THEN <<current>>
    ELSE backtrackLoop(array, k, current, 1)

backtrackLoop(array, k, current, x) ==
    IF x > Len(array) THEN <<>>
    ELSE (IF array[x] \notin Range(current)
          THEN backtrack(array, k, Append(current, array[x]))
          ELSE <<>>)
         \o backtrackLoop(array, k, current, x + 1)

\* A slip: the loop started at the unused parameter start, which keeps only
\* the sequences in ascending index order.
generatePermutationsFromStart(array, k) ==
    LET Ascending(current) ==
            \A x, y \in DOMAIN current :
                x < y => \E a, b \in DOMAIN array :
                             a < b /\ array[a] = current[x] /\ array[b] = current[y]
    IN  SelectSeq(backtrack(array, k, <<>>), Ascending)

generatePermutations(array, k) == backtrack(array, k, <<>>)

\* ----------------------------------------------- generateVoiceAssignments
\* A slip in Array.from({ length: numVoices }, (_, i) => i): voices counted
\* from 1.
generateVoiceAssignmentsFromOne(h, chord, n) ==
    LET Fixed(id) == h[id].voice # Undefined
        Unfixed(id) == h[id].voice = Undefined
        fixedNotes == SelectSeq(chord.notes, Fixed)
        unfixedNotes == SelectSeq(chord.notes, Unfixed)
        usedVoices == {h[id].voice : id \in Range(fixedNotes)}
        Available(v) == v \notin usedVoices
        availableVoices == SelectSeq([x \in 1..n |-> x], Available)
    IN  generatePermutations(availableVoices, Len(unfixedNotes))

generateVoiceAssignments(h, chord, n) ==
    LET Fixed(id) == h[id].voice # Undefined
        Unfixed(id) == h[id].voice = Undefined
        fixedNotes == SelectSeq(chord.notes, Fixed)
        unfixedNotes == SelectSeq(chord.notes, Unfixed)
        usedVoices == {h[id].voice : id \in Range(fixedNotes)}
        Available(v) == v \notin usedVoices
        availableVoices == SelectSeq([x \in 1..n |-> x - 1], Available)
    IN  generatePermutations(availableVoices, Len(unfixedNotes))

\* ----------------------------------------------------------- adjustOctaves
\* while (bassNote.pitch > lowestPitch) bassNote.pitch -= 12
RECURSIVE lowerBass(_, _)
lowerBass(pitch, lowestPitch) ==
    IF pitch > lowestPitch THEN lowerBass(pitch - 12, lowestPitch) ELSE pitch

\* A slip: the adjusted pitch clamped to the MIDI range 0..127.
adjustOctavesStepClamped(h, notes, x) ==
    LET cur == notes[x]
        lowerPitch == h[notes[x + 1]].pitch
        p0 == h[cur].pitch
        p1 == IF p0 <= lowerPitch
              THEN p0 + 12 * (((lowerPitch - p0) \div 12) + 1)
              ELSE p0
        p2 == IF p1 - lowerPitch > 12
              THEN p1 - 12 * ((p1 - lowerPitch) \div 12)
              ELSE p1
    IN  [h EXCEPT ![cur].pitch = IF p2 > 127 THEN 127 ELSE IF p2 < 0 THEN 0 ELSE p2]

\* One iteration of the loop over the voices, for index x (1-based) of the
\* sorted notes: currentNote = notes[x], lowerNote = notes[x + 1].
adjustOctavesStep(h, notes, x) ==
    LET cur == notes[x]
        lowerPitch == h[notes[x + 1]].pitch
        p0 == h[cur].pitch
        p1 == IF p0 <= lowerPitch
              THEN p0 + 12 * (((lowerPitch - p0) \div 12) + 1)
              ELSE p0
        p2 == IF p1 - lowerPitch > 12
              THEN p1 - 12 * ((p1 - lowerPitch) \div 12)
              ELSE p1
    IN  [h EXCEPT ![cur].pitch = p2]

RECURSIVE adjustOctavesLoop(_, _, _)
adjustOctavesLoop(h, notes, x) ==
    IF x < 1 THEN h
    ELSE adjustOctavesLoop(adjustOctavesStep(h, notes, x), notes, x - 1)

\* The chord's notes array after adjustOctaves (sorted in place by voice).
adjustOctavesNotes(h, chord) == SortByVoice(h, chord.notes)

\* The notes' fields after adjustOctaves.
adjustOctaves(h, chord) ==
    LET notes == adjustOctavesNotes(h, chord)
        bassVoice == Max({VoiceOr0(h[id].voice) : id \in Range(notes)})
        bassIdx == FindIndexByVoice(h, notes, bassVoice)
    IN  IF bassIdx = 0 THEN h
        ELSE LET bassNote == notes[bassIdx]
                 lowestPitch == Min({h[id].pitch : id \in Range(notes)})
                 h1 == IF h[bassNote].pitch # lowestPitch
                       THEN [h EXCEPT ![bassNote].pitch =
                                lowerBass(h[bassNote].pitch, lowestPitch)]
                       ELSE h
             IN  adjustOctavesLoop(h1, notes, Len(notes) - 1)

\* ---------------------------------------------------- optimizeChordVoicing
\* for (let i = 0; i < unfixedNotes.length; i++) unfixedNotes[i].voice = assignment[i]
setVoices(h, unfixedNotes, assignment) ==
    writeVoices(h, unfixedNotes, assignment, 1)

\* unfixedNotes.forEach(note => note.voice = undefined)
resetVoices(h, unfixedNotes) ==
    writeVoices(h, unfixedNotes, [x \in DOMAIN unfixedNotes |-> Undefined], 1)

\* The body of the for loop over possibleAssignments, for one assignment.
\* st holds the notes, bestAssignment (found = FALSE: null) and lowestCost
\* (found = FALSE: Infinity).
searchStep(st, prevChord, currentChord, unfixedNotes, assignment) ==
    LET h1 == setVoices(st.heap, unfixedNotes, assignment)
        cost == calculateVoiceLeadingCost(h1, prevChord, currentChord, assignment)
        h2 == calculateVoiceLeadingCostHeap(h1, currentChord, assignment)
        h3 == resetVoices(h2, unfixedNotes)
    IN  IF ~st.found \/ cost < st.lowestCost
        THEN [heap |-> h3, found |-> TRUE,
              bestAssignment |-> assignment, lowestCost |-> cost]
        ELSE [st EXCEPT !.heap = h3]

\* The for loop over possibleAssignments[lo..hi], in index order (the range
\* is halved only to keep the evaluation shallow).
RECURSIVE searchAssignments(_, _, _, _, _, _, _)
searchAssignments(st, prevChord, currentChord, unfixedNotes, possibleAssignments, lo, hi) ==
    IF lo > hi THEN st
    ELSE IF lo = hi
         THEN searchStep(st, prevChord, currentChord, unfixedNotes, possibleAssignments[lo])
         ELSE LET mid == (lo + hi) \div 2
              IN  searchAssignments(
                      searchAssignments(st, prevChord, currentChord, unfixedNotes,
                                        possibleAssignments, lo, mid),
                      prevChord, currentChord, unfixedNotes, possibleAssignments,
                      mid + 1, hi)

\* The notes' fields before the final adjustOctaves call of
\* optimizeChordVoicing (only reached when there are unfixed notes).
commitBestAssignment(h, prevChord, currentChord, n) ==
    LET Unfixed(id) == h[id].voice = Undefined
        unfixedNotes == SelectSeq(currentChord.notes, Unfixed)
        possibleAssignments == generateVoiceAssignments(h, currentChord, n)
        st == searchAssignments(
                  [heap |-> h, found |-> FALSE, bestAssignment |-> <<>>, lowestCost |-> 0],
                  prevChord, currentChord, unfixedNotes, possibleAssignments,
                  1, Len(possibleAssignments))
    IN  IF st.found
        THEN setVoices(st.heap, unfixedNotes, st.bestAssignment)
        ELSE st.heap

hasUnfixedNotes(h, chord) == \E id \in Range(chord.notes) : h[id].voice = Undefined

\* The notes' fields (heap) and currentChord.notes (notes) after the final
\* adjustOctaves(currentChord) call of optimizeChordVoicing.
adjustOctavesResult(h, chord) ==
    [heap |-> adjustOctaves(h, chord), notes |-> adjustOctavesNotes(h, chord)]

\* A slip: adjustOctaves called on prevChord as well.
optimizeChordVoicingAdjustingPrevChord(h, prevChord, currentChord, n) ==
    IF ~hasUnfixedNotes(h, currentChord)
    THEN [heap |-> h, notes |-> currentChord.notes]
    ELSE LET after == adjustOctavesResult(
                          commitBestAssignment(h, prevChord, currentChord, n), currentChord)
         IN  [heap |-> adjustOctaves(after.heap, prevChord), notes |-> after.notes]

\* A slip: the early return for a chord without unfixed notes is missing.
optimizeChordVoicingNoEarlyReturn(h, prevChord, currentChord, n) ==
    adjustOctavesResult(commitBestAssignment(h, prevChord, currentChord, n), currentChord)

\* The notes' fields (heap) and currentChord.notes (notes) after
\* optimizeChordVoicing(prevChord, currentChord, n).
optimizeChordVoicing(h, prevChord, currentChord, n) ==
    IF ~hasUnfixedNotes(h, currentChord)
    THEN [heap |-> h, notes |-> currentChord.notes]
    ELSE adjustOctavesResult(commitBestAssignment(h, prevChord, currentChord, n), currentChord)

\* ---------------------------------------------------- flattenChordsToNotes
flatIds(cs) == Concat([x \in DOMAIN cs |-> cs[x].notes])

\* A slip: only the first note of each chord pushed.
flattenChordsToNotesFirstOnly(h, cs) == [x \in DOMAIN cs |-> h[cs[x].notes[1]]]

flattenChordsToNotes(h, cs) == [x \in DOMAIN flatIds(cs) |-> h[flatIds(cs)[x]]]

\* ------------------------------------ adjustHarmonyOctaveRelativeToMelody
\* A slip: floor(gap / 12) for floor((gap - 1) / 12).
adjustHarmonyOctaveRelativeToMelodyByWholeGap(h, cs) ==
    LET allNotes == flatIds(cs)
        melodyPitches == {h[id].pitch : id \in {n \in Range(allNotes) : h[n].voice = 0}}
        harmonyPitches ==
            {h[id].pitch : id \in {n \in Range(allNotes) : isHarmonyVoice(h[n].voice)}}
    IN  IF melodyPitches = {} \/ harmonyPitches = {} THEN h
        ELSE LET gap == Min(melodyPitches) - Max(harmonyPitches)
                 pitchAdjustment == (gap \div 12) * 12
             IN  IF gap > 12 /\ pitchAdjustment > 0
                 THEN shiftPitches(h, allNotes, pitchAdjustment, 1)
                 ELSE h

adjustHarmonyOctaveRelativeToMelody(h, cs) ==
    LET allNotes == flatIds(cs)
        melodyPitches == {h[id].pitch : id \in {n \in Range(allNotes) : h[n].voice = 0}}
        harmonyPitches ==
            {h[id].pitch : id \in {n \in Range(allNotes) : isHarmonyVoice(h[n].voice)}}
    IN  IF melodyPitches = {} \/ harmonyPitches = {} THEN h
        ELSE LET gap == Min(melodyPitches) - Max(harmonyPitches)
                 pitchAdjustment == ((gap - 1) \div 12) * 12
             IN  IF gap > 12 /\ pitchAdjustment > 0
                 THEN shiftPitches(h, allNotes, pitchAdjustment, 1)
                 ELSE h

\* ------------------------------------------------- optimizeVoiceLeading
\* The call optimizeVoiceLeading(melodyNotes, harmonyNotes) with fresh note
\* objects that carry no voice.
InitWith(m, h) ==
    /\ pc = "identifyChords"
    /\ melodyNotes = [x \in 1..Len(m) |-> x]
    /\ harmonyNotes = [x \in 1..Len(h) |-> Len(m) + x]
    /\ input = [id \in 1..(Len(m) + Len(h)) |->
                   LET v == (m \o h)[id]
                   IN  [pitch |-> v.pitch, position |-> v.position,
                        duration |-> v.duration, voice |-> Undefined]]
    /\ heap = input
    /\ chords = <<>>
    /\ numVoices = 0
    /\ i = 0
    /\ result = <<>>
    /\ adjustOctavesCalls = <<>>
    /\ layers = <<>>
    /\ controls = <<>>

Init ==
    \E m \in SeqsUpTo(NoteValues, MaxNotes) :
        \E h \in SeqsUpTo(NoteValues, MaxNotes - Len(m)) :
            InitWith(m, h)

\* The same call with notes at the top of the MIDI range.
InitHigh ==
    \E m \in SeqsUpTo([pitch : HighPitches, position : Positions, duration : Durations],
                      MaxNotes) :
        \E h \in SeqsUpTo([pitch : HighPitches, position : Positions, duration : Durations],
                          MaxNotes - Len(m)) :
            InitWith(m, h)

\* The same call with notes at three positions.
InitLong ==
    \E m \in SeqsUpTo([pitch : LongPitches, position : LongPositions, duration : Durations],
                      MaxNotes) :
        \E h \in SeqsUpTo([pitch : LongPitches, position : LongPositions,
                           duration : Durations],
                          MaxNotes - Len(m)) :
            InitWith(m, h)

\* The calls of the scenarios A and B and their neighbours: the melody 72
\* then 74 or a part of it, over some of the harmony notes of the two
\* scenario chords in any order.
ScenarioMelody ==
    {<<>>,
     <<[pitch |-> 72, position |-> 0, duration |-> 8]>>,
     <<[pitch |-> 74, position |-> 1, duration |-> 8]>>,
     <<[pitch |-> 72, position |-> 0, duration |-> 8],
       [pitch |-> 74, position |-> 1, duration |-> 8]>>}

\* The arrays that hold some of the pitches of S, each at most once, at
\* position p.
ScenarioHarmony(S, p) ==
    {h \in SeqsUpTo([pitch : S, position : {p}, duration : Durations], Cardinality(S)) :
        \A x, y \in DOMAIN h : x # y => h[x] # h[y]}

InitScenario ==
    \E m \in ScenarioMelody :
        \E h0 \in ScenarioHarmony(FirstHarmony, 0) :
            \E h1 \in ScenarioHarmony(SecondHarmony, 1) :
                InitWith(m, h0 \o h1)

\* const chords = identifyChords(melodyNotes, harmonyNotes)
IdentifyChords ==
    /\ pc = "identifyChords"
    /\ chords' = identifyChords(heap, melodyNotes, harmonyNotes)
    /\ heap' = identifyChordsHeap(heap, melodyNotes, harmonyNotes)
    /\ pc' = "determineVoiceCount"
    /\ UNCHANGED <<melodyNotes, harmonyNotes, input, numVoices, i, result,
                   adjustOctavesCalls, layers, controls>>

\* const numVoices = determineVoiceCount(chords)
DetermineVoiceCount ==
    /\ pc = "determineVoiceCount"
    /\ numVoices' = determineVoiceCount(chords)
    /\ pc' = "assignVoicesToFirstChord"
    /\ UNCHANGED <<melodyNotes, harmonyNotes, input, heap, chords, i, result,
                   adjustOctavesCalls, layers, controls>>

\* assignVoicesToFirstChord(chords[0], numVoices); chords[0] is undefined
\* when there is no chord, and reading chord.notes then throws a TypeError.
AssignVoicesToFirstChord ==
    /\ pc = "assignVoicesToFirstChord"
    /\ IF chords = <<>>
       THEN /\ pc' = "threw"
            /\ UNCHANGED <<heap, i>>
       ELSE /\ heap' = assignVoicesToFirstChord(heap, chords[1], numVoices)
            /\ i' = 1
            /\ pc' = "loop"
    /\ UNCHANGED <<melodyNotes, harmonyNotes, input, chords, numVoices, result,
                   adjustOctavesCalls, layers, controls>>

\* A slip: the i++ of the for loop left out.
OptimizeChordVoicingWithoutIncrement ==
    /\ pc = "loop"
    /\ i < Len(chords)
    /\ LET after == optimizeChordVoicing(heap, chords[i], chords[i + 1], numVoices)
       IN  /\ heap' = after.heap
           /\ chords' = [chords EXCEPT ![i + 1].notes = after.notes]
    /\ adjustOctavesCalls' =
           IF hasUnfixedNotes(heap, chords[i + 1])
           THEN Append(adjustOctavesCalls, i + 1)
           ELSE adjustOctavesCalls
    /\ UNCHANGED <<pc, melodyNotes, harmonyNotes, input, numVoices, i, result, layers, controls>>

\* One iteration of for (let i = 1; i < chords.length; i++)
OptimizeChordVoicing ==
    /\ pc = "loop"
    /\ i < Len(chords)
    /\ LET after == optimizeChordVoicing(heap, chords[i], chords[i + 1], numVoices)
       IN  /\ heap' = after.heap
           /\ chords' = [chords EXCEPT ![i + 1].notes = after.notes]
    /\ adjustOctavesCalls' =
           IF hasUnfixedNotes(heap, chords[i + 1])
           THEN Append(adjustOctavesCalls, i + 1)   \* line 283
           ELSE adjustOctavesCalls                  \* the return of line 248
    /\ i' = i + 1
    /\ UNCHANGED <<pc, melodyNotes, harmonyNotes, input, numVoices, result, layers, controls>>

\* The loop ends; adjustHarmonyOctaveRelativeToMelody(chords)
AdjustHarmonyOctaveRelativeToMelody ==
    /\ pc = "loop"
    /\ i >= Len(chords)
    /\ heap' = adjustHarmonyOctaveRelativeToMelody(heap, chords)
    /\ pc' = "flatten"
    /\ UNCHANGED <<melodyNotes, harmonyNotes, input, chords, numVoices, i, result,
                   adjustOctavesCalls, layers, controls>>

\* return flattenChordsToNotes(chords)
FlattenChordsToNotes ==
    /\ pc = "flatten"
    /\ result' = flattenChordsToNotes(heap, chords)
    /\ pc' = "returned"
    /\ UNCHANGED <<melodyNotes, harmonyNotes, input, heap, chords, numVoices, i,
                   adjustOctavesCalls, layers, controls>>

Next ==
    \/ IdentifyChords
    \/ DetermineVoiceCount
    \/ AssignVoicesToFirstChord
    \/ OptimizeChordVoicing
    \/ AdjustHarmonyOctaveRelativeToMelody
    \/ FlattenChordsToNotes

Spec == Init /\ [][Next]_vars

\* The calls of Spec and the calls with notes at the top of the MIDI range.
SpecHigh == (Init \/ InitHigh) /\ [][Next]_vars

\* The calls with notes at three positions.
SpecLong == InitLong /\ [][Next]_vars

\* The calls of Spec and the calls of the scenarios.
SpecScenario == (Init \/ InitScenario) /\ [][Next]_vars

\* ------------------------------------ OptimizeHarmonyDialog.handleOptimize
\* A note name is the index of its letter in noteNames and its octave.
\* `${note}${octave}` with note = noteNames[pitch % 12]: JavaScript's % keeps
\* the sign, so a negative pitch off a multiple of 12 has note undefined.
pitchToNoteName(pitch) ==
    [note |-> IF pitch < 0 /\ pitch % 12 # 0 THEN "undefined" ELSE pitch % 12,
     octave |-> (pitch \div 12) - 1]

\* midi(name) of tonal-note: c4 is 60.
getMidiNumber(name) == 12 * (name.octave + 1) + name.note

\* The names of the piano roll's rows (utils/globals): a fixed range of
\* pitches, here c1 .. b7.
allNotes == {pitchToNoteName(pitch) : pitch \in 24..107}

\* A layer's note: NoteData, with the voice standing for the colour.
NoteDataValues ==
    [note : {pitchToNoteName(pitch) : pitch \in Pitches}, column : Positions,
     units : Durations, voice : {Undefined}]

\* The notes of a layer that is neither the melody nor the harmony layer.
OtherLayerNotes ==
    <<[note |-> pitchToNoteName(60), column |-> 0, units |-> 8, voice |-> Undefined]>>

\* The dialog is open with a melody and a harmony layer selected, of up to
\* MaxNotes notes together, and the Optimize button is clicked.
InitDialog ==
    /\ pc = "handleOptimize"
    /\ \E m \in SeqsUpTo(NoteDataValues, MaxNotes) :
           \E h \in SeqsUpTo(NoteDataValues, MaxNotes - Len(m)) :
               layers = [melody |-> m, harmony |-> h, other |-> OtherLayerNotes]
    /\ melodyNotes = <<>>
    /\ harmonyNotes = <<>>
    /\ input = <<>>
    /\ heap = <<>>
    /\ chords = <<>>
    /\ numVoices = 0
    /\ i = 0
    /\ result = <<>>
    /\ adjustOctavesCalls = <<>>
    /\ controls = <<>>

\* const melodyNotes = melodyLayer.notes.map(...), const harmonyNotes = ...
\* and the call optimizeVoiceLeading(melodyNotes, harmonyNotes)
ExtractNotes ==
    /\ pc = "handleOptimize"
    /\ melodyNotes' = [x \in 1..Len(layers.melody) |-> x]
    /\ harmonyNotes' = [x \in 1..Len(layers.harmony) |-> Len(layers.melody) + x]
    /\ input' = [id \in 1..(Len(layers.melody) + Len(layers.harmony)) |->
                    LET n == (layers.melody \o layers.harmony)[id]
                    IN  [pitch |-> getMidiNumber(n.note), position |-> n.column,
                         duration |-> n.units, voice |-> Undefined]]
    /\ heap' = input'
    /\ pc' = "identifyChords"
    /\ UNCHANGED <<chords, numVoices, i, result, adjustOctavesCalls, layers, controls>>

\* optimizedNotes.filter(not a melody note).map(to NoteData or null)
\* .filter(not null); melodyNotes holds the objects the optimizer mutated.
optimizedHarmonyNotesData(h, melody, optimizedNotes) ==
    LET NotMelody(note) ==
            ~\E mn \in Range(melody) :
                h[mn].pitch = note.pitch /\ h[mn].position = note.position
        Displayable(note) == pitchToNoteName(note.pitch) \in allNotes
        kept == SelectSeq(SelectSeq(optimizedNotes, NotMelody), Displayable)
    IN  [x \in DOMAIN kept |->
            [note |-> pitchToNoteName(kept[x].pitch), column |-> kept[x].position,
             units |-> kept[x].duration, voice |-> kept[x].voice]]

\* updatedLayers[harmonyLayerIndex] = {..., notes: optimizedHarmonyNotesData};
\* setLayers(updatedLayers); onClose()
SetLayers ==
    /\ pc = "returned"
    /\ layers # <<>>
    /\ layers' = [layers EXCEPT
                     !.harmony = optimizedHarmonyNotesData(heap, melodyNotes, result)]
    /\ pc' = "closed"
    /\ UNCHANGED <<melodyNotes, harmonyNotes, input, heap, chords, numVoices, i, result,
                   adjustOctavesCalls, controls>>

NextDialog ==
    \/ ExtractNotes
    \/ Next
    \/ SetLayers

\* A click on Optimize in the dialog.
SpecDialog == InitDialog /\ [][NextDialog]_vars

\* --------------------------------------------------- useControls: playback
\* The column after the last bar that holds a note (getNearestBar).
FarthestCol == 3

\* The playback loops that may be pending at once.
MaxLoops == 3

PlayingTypes == {"TRACK", "SONG"}

\* One call of playTrack or playSong: the column i of its for loop and where
\* it stands (at await timer(unitTimeMs), or returned). stopped and
\* advancedAfterStop record its history: handleStop has run since it was
\* started, and it has sounded a column after that.
Loop(fn, col, at) ==
    [fn |-> fn, i |-> col, pc |-> at, stopped |-> FALSE, advancedAfterStop |-> FALSE]

\* The for loop of playTrack / playSong from its test i < farthestCol up to
\* the next await: leave the loop at the end of the notes, return when
\* playingRef is off, otherwise sound column i, setProgress(i) and wait; past
\* the end reset the progress and call itself, which starts at
\* tempProgressRef.
RECURSIVE playbackStep(_, _, _)
playbackStep(c, l, col) ==
    IF col < c.farthestCol
    THEN IF ~c.playingRef
         THEN [progress |-> c.progress, loop |-> [l EXCEPT !.pc = "returned"]]
         ELSE [progress |-> col,
               loop |-> [l EXCEPT !.i = col, !.pc = "timer",
                                  !.advancedAfterStop = @ \/ l.stopped]]
    ELSE playbackStep([c EXCEPT !.progress = 0], l, c.tempProgress)

\* playPianoRoll: playTrack() or playSong() up to its first await; both
\* return at once when there is nothing to play.
playPianoRoll(c) ==
    IF c.farthestCol = 0
    THEN [progress |-> c.progress, loop |-> Loop(c.playingType, 0, "returned")]
    ELSE playbackStep(c, Loop(c.playingType, 0, "timer"), c.tempProgress)

InitControls ==
    /\ pc = "useControls"
    /\ melodyNotes = <<>>
    /\ harmonyNotes = <<>>
    /\ input = <<>>
    /\ heap = <<>>
    /\ chords = <<>>
    /\ numVoices = 0
    /\ i = 0
    /\ result = <<>>
    /\ adjustOctavesCalls = <<>>
    /\ layers = <<>>
    /\ \E type \in PlayingTypes, far \in {0, FarthestCol} :
           controls = [playingRef |-> FALSE, playing |-> FALSE, progress |-> 0,
                       tempProgress |-> 0, playingType |-> type,
                       farthestCol |-> far, loops |-> <<>>]

optimizerVars ==
    <<pc, melodyNotes, harmonyNotes, input, heap, chords, numVoices, i, result,
      adjustOctavesCalls, layers>>

handlePlay(c) ==
    LET c1 == [c EXCEPT !.tempProgress = c.progress]
    IN  IF c1.playingRef
        THEN c1
        ELSE LET c2 == [c1 EXCEPT !.playingRef = TRUE, !.playing = TRUE]
                 started == playPianoRoll(c2)
             IN  [c2 EXCEPT !.progress = started.progress,
                            !.loops = Append(@, started.loop)]

HandlePlay ==
    /\ pc = "useControls"
    /\ controls.playingRef \/ Len(controls.loops) < MaxLoops
    /\ controls' = handlePlay(controls)
    /\ UNCHANGED optimizerVars

HandleStop ==
    /\ pc = "useControls"
    /\ controls' = [controls EXCEPT
                       !.progress = controls.tempProgress,
                       !.playing = FALSE,
                       !.playingRef = FALSE,
                       !.loops = [k \in DOMAIN @ |->
                                     IF @[k].pc = "timer"
                                     THEN [@[k] EXCEPT !.stopped = TRUE]
                                     ELSE @[k]]]
    /\ UNCHANGED optimizerVars

TogglePlay ==
    /\ pc = "useControls"
    /\ ~controls.playing => Len(controls.loops) < MaxLoops
    /\ controls' = IF ~controls.playing
                   THEN handlePlay(controls)
                   ELSE [controls EXCEPT !.playing = FALSE, !.playingRef = FALSE]
    /\ UNCHANGED optimizerVars

\* The timer a loop awaits completes: i++ and the loop goes on.
TimerCompletes ==
    /\ pc = "useControls"
    /\ \E k \in DOMAIN controls.loops :
           /\ controls.loops[k].pc = "timer"
           /\ LET next == playbackStep(controls, controls.loops[k],
                                       controls.loops[k].i + 1)
              IN  controls' = [controls EXCEPT !.progress = next.progress,
                                               !.loops[k] = next.loop]
    /\ UNCHANGED optimizerVars

NextControls ==
    \/ HandlePlay
    \/ HandleStop
    \/ TogglePlay
    \/ TimerCompletes

\* Play, stop and toggle events interleaved with timer completions.
SpecControls == InitControls /\ [][NextControls]_vars

\* ================================================================ claims
Returned == pc = "returned"

\* The identity of the object the j-th returned note is a copy of.
sourceOf(j) == flatIds(chords)[j]

fromMelody(j) == sourceOf(j) \in Range(melodyNotes)

fromHarmony(j) == sourceOf(j) \in Range(harmonyNotes)

\* The returned notes j and k belong to one chord.
sameChord(j, k) == result[j].position = result[k].position

\* In the chord of j and k, j and k are adjacent in voice-index order.
adjacentVoices(j, k) ==
    /\ sameChord(j, k)
    /\ result[j].voice < result[k].voice
    /\ ~\E l \in DOMAIN result :
           /\ sameChord(j, l)
           /\ result[j].voice < result[l].voice
           /\ result[l].voice < result[k].voice

\* N as the inputs define it: the largest number of input notes at one position.
maxNotesAtOnePosition ==
    Max({0} \cup {Cardinality({id \in DOMAIN input : input[id].position = p}) :
                     p \in {input[id].position : id \in DOMAIN input}})

\* The chord the loop is about to hand to optimizeChordVoicing has unfixed notes.
atChordWithUnfixedNotes ==
    /\ pc = "loop"
    /\ i < Len(chords)
    /\ hasUnfixedNotes(heap, chords[i + 1])

\* C1: every returned note that comes from an input melody note has voice 0.
C1_MelodyKeepsVoiceZero ==
    Returned => \A j \in DOMAIN result : fromMelody(j) => result[j].voice = 0

\* C2: every returned note that comes from an input melody note has the pitch
\* it had in the input.
C2_MelodyPitchUnchanged ==
    Returned =>
        \A j \in DOMAIN result : fromMelody(j) => result[j].pitch = input[sourceOf(j)].pitch

\* C3: in the returned notes no two notes of one chord carry the same voice.
C3_VoicesDistinctPerChord ==
    Returned =>
        \A j, k \in DOMAIN result :
            (j # k /\ sameChord(j, k)) => result[j].voice # result[k].voice

\* C4: in every returned chord the note with the lower voice index has a pitch
\* greater than or equal to that of the note with the higher voice index.
C4_NoVoiceCrossing ==
    Returned =>
        \A j, k \in DOMAIN result :
            (sameChord(j, k) /\ result[j].voice < result[k].voice)
                => result[j].pitch >= result[k].pitch

\* C5: in every returned chord with at least two voices the note with the
\* highest voice index has a pitch less than or equal to every other note's.
C5_BassIsLowest ==
    Returned =>
        \A j \in DOMAIN result :
            (/\ \E k \in DOMAIN result : sameChord(j, k) /\ result[k].voice # result[j].voice
             /\ \A k \in DOMAIN result : sameChord(j, k) => result[k].voice <= result[j].voice)
                => \A k \in DOMAIN result : sameChord(j, k) => result[j].pitch <= result[k].pitch

\* C6: in every returned chord two notes adjacent in voice-index order differ
\* in pitch by at most 12 semitones.
C6_AdjacentVoicesWithinOctave ==
    Returned =>
        \A j, k \in DOMAIN result :
            adjacentVoices(j, k) => Abs(result[j].pitch - result[k].pitch) <= 12

\* C7: for a non-empty input every returned note carries a defined voice v
\* with 0 <= v <= N - 1, N the largest number of notes sharing one position,
\* and the search of optimizeChordVoicing always has a candidate assignment.
C7_VoicesDefinedAndInRange ==
    /\ Returned =>
           \A j \in DOMAIN result :
               /\ result[j].voice # Undefined
               /\ 0 <= result[j].voice
               /\ result[j].voice <= maxNotesAtOnePosition - 1
    /\ atChordWithUnfixedNotes =>
           generateVoiceAssignments(heap, chords[i + 1], numVoices) # <<>>

\* C7's case: a call has returned whose second chord had notes for the search
\* to place, among at least two voices.
C7_Witness ==
    /\ Returned
    /\ numVoices >= 2
    /\ Len(chords) >= 2
    /\ \E id \in Range(chords[2].notes) :
           identifyChordsHeap(input, melodyNotes, harmonyNotes)[id].voice = Undefined

\* C8: with both inputs empty the call raises no error.
C8_EmptyInputDoesNotThrow ==
    (melodyNotes = <<>> /\ harmonyNotes = <<>>) => pc # "threw"

\* C9: with no harmony and a non-empty melody the returned notes are exactly
\* the melody notes, each once, with their input pitch, position and duration
\* and voice 0.
C9_MelodyAloneIsReturnedUntouched ==
    (Returned /\ harmonyNotes = <<>> /\ melodyNotes # <<>>) =>
        /\ Len(result) = Len(melodyNotes)
        /\ {sourceOf(j) : j \in DOMAIN result} = Range(melodyNotes)
        /\ \A j \in DOMAIN result :
               result[j] = [input[sourceOf(j)] EXCEPT !.voice = 0]

\* C9's case: a melody alone has been returned that has a second chord of
\* several notes.
C9_Witness ==
    /\ Returned
    /\ harmonyNotes = <<>>
    /\ Len(chords) = 2
    /\ Len(chords[2].notes) >= 2

\* C10: with at least one melody and one harmony note, the lowest returned
\* pitch of a melody note is at most 12 above the highest returned pitch of a
\* harmony note.
C10_MelodyHarmonyGapAtMostOctave ==
    (Returned /\ melodyNotes # <<>> /\ harmonyNotes # <<>>) =>
        Min({result[j].pitch : j \in {x \in DOMAIN result : fromMelody(x)}})
            - Max({result[j].pitch : j \in {x \in DOMAIN result : fromHarmony(x)}}) <= 12

\* C12: every returned note's pitch differs from the pitch the note had in
\* the input by an integer multiple of 12 (so it is never clamped to 0..127).
C12_PitchMovesByOctaves ==
    Returned =>
        \A j \in DOMAIN result :
            (result[j].pitch - input[sourceOf(j)].pitch) % 12 = 0

\* C12's case: a returned note has been moved out of the MIDI range.
C12_Witness ==
    /\ Returned
    /\ \E j \in DOMAIN result :
           /\ result[j].pitch # input[sourceOf(j)].pitch
           /\ result[j].pitch \notin 0..127

\* The first chord has just been given its voices.
afterAssignVoicesToFirstChord == pc = "loop" /\ i = 1

\* The notes of the first chord, as the inputs define it.
firstChordNotes ==
    {id \in DOMAIN input :
        \A other \in DOMAIN input : input[id].position <= input[other].position}

\* The note id has the pitch and position of some input melody note.
isMelodyNote(id) ==
    \E m \in Range(melodyNotes) :
        input[m].pitch = input[id].pitch /\ input[m].position = input[id].position

\* The non-melody notes of the first chord carry the voices first,
\* first + 1, ... in descending pitch order, the lowest of them N - 1.
firstChordVoicesFrom(first) ==
    LET nonMelody == {id \in firstChordNotes : ~isMelodyNote(id)}
        k == Cardinality(nonMelody)
    IN  /\ \A id \in firstChordNotes : isMelodyNote(id) => heap[id].voice = 0
        /\ \A a, b \in nonMelody :
               /\ a # b => heap[a].voice # heap[b].voice
               /\ input[a].pitch > input[b].pitch => heap[a].voice < heap[b].voice
        /\ k >= 1 =>
               {heap[id].voice : id \in nonMelody}
                   = {first + r : r \in 0..(k - 2)} \cup {maxNotesAtOnePosition - 1}

\* Scenario A's first chord: melody 72 over harmony 67, 64, 60, four voices.
scenarioAFirstChord ==
    /\ Cardinality(firstChordNotes) = 4
    /\ maxNotesAtOnePosition = 4
    /\ \E m \in firstChordNotes \cap Range(melodyNotes) : input[m].pitch = 72
    /\ {input[id].pitch : id \in firstChordNotes \cap Range(harmonyNotes)} = {67, 64, 60}

scenarioAVoices ==
    scenarioAFirstChord =>
        \A id \in firstChordNotes :
            heap[id].voice = CASE input[id].pitch = 72 -> 0
                               [] input[id].pitch = 67 -> 1
                               [] input[id].pitch = 64 -> 2
                               [] input[id].pitch = 60 -> 3

\* C13 as stated: after assignVoicesToFirstChord the melody note has voice 0
\* and the non-melody notes of the first chord, in descending pitch order,
\* have the voices 1, 2, ... except the lowest, which has N - 1; Scenario A
\* gets the voices 0, 1, 2, 3 with 60 at voice 3.
C13_FirstChordVoicesFromOne ==
    afterAssignVoicesToFirstChord => firstChordVoicesFrom(1) /\ scenarioAVoices

\* C13 amended: the same, but the numbering of the non-melody notes starts
\* at 1 only when the first chord has a melody note, and at 0 when it has none.
C13_FirstChordVoices ==
    afterAssignVoicesToFirstChord =>
        /\ firstChordVoicesFrom(IF \E id \in firstChordNotes : isMelodyNote(id)
                                THEN 1 ELSE 0)
        /\ scenarioAVoices

\* C13's case: Scenario A's first chord has been given its voices.
C13_Witness == afterAssignVoicesToFirstChord /\ scenarioAFirstChord

\* The unfixed notes of the chord the loop is about to optimize, in the
\* chord's order.
unfixedNotesOfCurrentChord ==
    LET Unfixed(id) == heap[id].voice = Undefined
    IN  SelectSeq(chords[i + 1].notes, Unfixed)

\* The voices optimizeChordVoicing leaves on the unfixed notes.
committedAssignment ==
    LET after == optimizeChordVoicing(heap, chords[i], chords[i + 1], numVoices).heap
    IN  [x \in DOMAIN unfixedNotesOfCurrentChord |->
            after[unfixedNotesOfCurrentChord[x]].voice]

\* All assignments of distinct available voices to the unfixed notes.
assignmentsOfDistinctAvailableVoices ==
    LET used == {heap[id].voice : id \in Range(chords[i + 1].notes)} \ {Undefined}
        available == (0..(numVoices - 1)) \ used
    IN  {a \in [DOMAIN unfixedNotesOfCurrentChord -> available] :
            \A x, y \in DOMAIN a : x # y => a[x] # a[y]}

\* The cost of the current chord against the previous one when the fixed
\* notes keep their voices and the unfixed notes carry the candidate's.
costOfCandidate(assignment) ==
    LET h1 == setVoices(heap, unfixedNotesOfCurrentChord, assignment)
        prevSorted == SortByVoice(h1, chords[i].notes)
        currentSorted == SortByVoice(h1, chords[i + 1].notes)
    IN  crossingCost(h1, currentSorted)
        + spacingCost(h1, currentSorted)
        + parallelCost(h1, prevSorted, currentSorted)
        + movementCost(h1, prevSorted, currentSorted)

\* The place of an assignment in the enumeration of generateVoiceAssignments.
enumerationIndex(assignment) ==
    LET possibleAssignments == generateVoiceAssignments(heap, chords[i + 1], numVoices)
    IN  Min({x \in DOMAIN possibleAssignments : possibleAssignments[x] = assignment})

\* C14: for a chord after the first with an unfixed note, the assignment
\* optimizeChordVoicing commits has the lowest cost among all assignments of
\* distinct available voices, the fixed notes keeping their voices, and is
\* the first of that cost in enumeration order.
C14_CommittedAssignmentIsCheapest ==
    atChordWithUnfixedNotes =>
        /\ committedAssignment \in assignmentsOfDistinctAvailableVoices
        /\ \A a \in assignmentsOfDistinctAvailableVoices :
               \/ costOfCandidate(committedAssignment) < costOfCandidate(a)
               \/ /\ costOfCandidate(committedAssignment) = costOfCandidate(a)
                  /\ enumerationIndex(committedAssignment) <= enumerationIndex(a)

\* identifyChords has just returned.
afterIdentifyChords == pc = "determineVoiceCount"

\* C15: identifyChords returns one chord per distinct position of the input
\* notes, in strictly ascending position order, and each chord holds exactly
\* the input notes (melody and harmony) of its position, each once.
C15_OneChordPerPosition ==
    afterIdentifyChords =>
        /\ \A x \in 1..(Len(chords) - 1) : chords[x].position < chords[x + 1].position
        /\ {chords[x].position : x \in DOMAIN chords}
               = {input[id].position : id \in DOMAIN input}
        /\ \A x \in DOMAIN chords :
               /\ Range(chords[x].notes)
                      = {id \in DOMAIN input : input[id].position = chords[x].position}
               /\ Len(chords[x].notes) = Cardinality(Range(chords[x].notes))

\* C15's case: two chords have been returned for an input whose first note
\* is at the later position, one of them with a melody and a harmony note.
C15_Witness ==
    /\ afterIdentifyChords
    /\ Len(chords) = 2
    /\ input[1].position > input[Len(input)].position
    /\ \E x \in DOMAIN chords :
           /\ Range(chords[x].notes) \cap Range(melodyNotes) # {}
           /\ Range(chords[x].notes) \cap Range(harmonyNotes) # {}

\* C16: right after identifyChords a note has voice 0 exactly if some melody
\* note has its pitch and its position, and every other note has no voice.
C16_VoiceZeroIffMelodyPitchAndPosition ==
    afterIdentifyChords =>
        \A id \in DOMAIN heap :
            heap[id].voice = IF isMelodyNote(id) THEN 0 ELSE Undefined

\* C16's case: identifyChords has tagged a harmony note that doubles a melody
\* note and left untagged a harmony note with a melody note's pitch at
\* another position.
C16_Witness ==
    /\ afterIdentifyChords
    /\ \E id \in Range(harmonyNotes) : heap[id].voice = 0
    /\ \E id \in Range(harmonyNotes) :
           /\ heap[id].voice = Undefined
           /\ \E m \in Range(melodyNotes) : input[m].pitch = input[id].pitch

\* The notes' fields when the search loop of optimizeChordVoicing calls
\* calculateVoiceLeadingCost for its x-th candidate, and when that call
\* returns.
heapBeforeCostCall(x) ==
    LET possibleAssignments == generateVoiceAssignments(heap, chords[i + 1], numVoices)
        earlier == searchAssignments(
                       [heap |-> heap, found |-> FALSE, bestAssignment |-> <<>>,
                        lowestCost |-> 0],
                       chords[i], chords[i + 1], unfixedNotesOfCurrentChord,
                       possibleAssignments, 1, x - 1)
    IN  setVoices(earlier.heap, unfixedNotesOfCurrentChord, possibleAssignments[x])

heapAfterCostCall(x) ==
    calculateVoiceLeadingCostHeap(
        heapBeforeCostCall(x), chords[i + 1],
        generateVoiceAssignments(heap, chords[i + 1], numVoices)[x])

\* C17: a call of calculateVoiceLeadingCost changes neither the voice nor the
\* pitch of any note of prevChord or of currentChord.
C17_CostCallLeavesNotesUnchanged ==
    atChordWithUnfixedNotes =>
        \A x \in DOMAIN generateVoiceAssignments(heap, chords[i + 1], numVoices) :
            LET before == heapBeforeCostCall(x)
                after == heapAfterCostCall(x)
            IN  \A id \in Range(chords[i].notes) \cup Range(chords[i + 1].notes) :
                    /\ after[id].voice = before[id].voice
                    /\ after[id].pitch = before[id].pitch

\* The candidates the search loop is about to cost.
candidates == DOMAIN generateVoiceAssignments(heap, chords[i + 1], numVoices)

\* The candidate chord and the previous chord as a call of
\* calculateVoiceLeadingCost compares them: sorted by voice, h the notes'
\* fields in that call.
candidateSorted(h) == SortByVoice(h, chords[i + 1].notes)

previousSorted(h) == SortByVoice(h, chords[i].notes)

\* The pairs of notes in which the note with the lower voice index has the
\* strictly lower pitch.
crossingPairs(h, notes) ==
    {p \in Range(notes) \X Range(notes) :
        h[p[1]].voice < h[p[2]].voice /\ h[p[1]].pitch < h[p[2]].pitch}

\* C18: the crossing term is 1000 times the number of pairs of notes of the
\* candidate chord in which the note with the lower voice index has a
\* strictly lower pitch than the note with the higher voice index.
C18_CrossingTerm ==
    atChordWithUnfixedNotes =>
        \A x \in candidates :
            LET h == heapAfterCostCall(x)
            IN  crossingCost(h, candidateSorted(h))
                    = 1000 * Cardinality(crossingPairs(h, chords[i + 1].notes))

\* C18's case: a candidate chord with a crossing pair and with a pair of
\* equal pitch in different voices is being costed.
C18_Witness ==
    /\ atChordWithUnfixedNotes
    /\ \E x \in candidates :
           LET h == heapAfterCostCall(x)
           IN  /\ crossingPairs(h, chords[i + 1].notes) # {}
               /\ \E a, b \in Range(chords[i + 1].notes) :
                      h[a].voice < h[b].voice /\ h[a].pitch = h[b].pitch

\* C19: the spacing term is 100 times the number of pairs of notes adjacent
\* in voice-index order in the candidate chord whose pitches differ by more
\* than 12, whichever of the two is the higher.
C19_SpacingTerm ==
    atChordWithUnfixedNotes =>
        \A x \in candidates :
            LET h == heapAfterCostCall(x)
                sorted == candidateSorted(h)
            IN  spacingCost(h, sorted)
                    = 100 * Cardinality({y \in 1..(Len(sorted) - 1) :
                          Abs(h[sorted[y]].pitch - h[sorted[y + 1]].pitch) > 12})

\* The pitch of voice v in a chord sorted by voice.
pitchOfVoice(h, sorted, v) == h[sorted[FindIndexByVoice(h, sorted, v)]].pitch

voicesOf(h, notes) == {h[id].voice : id \in Range(notes)}

\* The pairs of voices present in both chords whose interval is a fifth in
\* both, or a non-zero octave multiple in the previous chord and an octave
\* multiple in the candidate chord.
parallelVoicePairs(h, prevSorted, currentSorted) ==
    {p \in voicesOf(h, prevSorted) \X voicesOf(h, prevSorted) :
        /\ p[1] < p[2]
        /\ p[1] \in voicesOf(h, currentSorted)
        /\ p[2] \in voicesOf(h, currentSorted)
        /\ LET before == Abs(pitchOfVoice(h, prevSorted, p[1])
                             - pitchOfVoice(h, prevSorted, p[2]))
               now == Abs(pitchOfVoice(h, currentSorted, p[1])
                          - pitchOfVoice(h, currentSorted, p[2]))
           IN  \/ before % 12 = 7 /\ now % 12 = 7
               \/ before # 0 /\ before % 12 = 0 /\ now % 12 = 0}

\* C20: the parallel term is 500 times the number of pairs of voices present
\* in both the previous and the candidate chord whose intervals are fifths
\* in both chords, or a non-zero octave multiple in the previous chord and an
\* octave multiple in the candidate chord.
C20_ParallelTerm ==
    atChordWithUnfixedNotes =>
        \A x \in candidates :
            LET h == heapAfterCostCall(x)
            IN  parallelCost(h, previousSorted(h), candidateSorted(h))
                    = 500 * Cardinality(parallelVoicePairs(h, previousSorted(h),
                                                           candidateSorted(h)))

\* The sum of f over the finite set S.
RECURSIVE SumOver(_, _)
SumOver(S, f) ==
    IF S = {} THEN 0
    ELSE LET v == CHOOSE w \in S : TRUE
         IN  f[v] + SumOver(S \ {v}, f)

\* 2 times the sum, over the voices present in both chords, of the absolute
\* pitch difference between the voice's note in the two chords.
movementOfSharedVoices(h, prevSorted, currentSorted) ==
    LET shared == voicesOf(h, prevSorted) \cap voicesOf(h, currentSorted)
    IN  2 * SumOver(shared,
                    [v \in shared |->
                        Abs(pitchOfVoice(h, prevSorted, v)
                            - pitchOfVoice(h, currentSorted, v))])

\* C21: the movement term is 2 times the sum, over the voices present in
\* both chords, of the absolute pitch difference of the voice's note in the
\* two chords, and the cost returned is the sum of the crossing, spacing,
\* parallel and movement terms and is not negative.
C21_MovementTermAndTotal ==
    atChordWithUnfixedNotes =>
        \A x \in candidates :
            LET before == heapBeforeCostCall(x)
                h == heapAfterCostCall(x)
                assignment == generateVoiceAssignments(heap, chords[i + 1], numVoices)[x]
                total == calculateVoiceLeadingCost(before, chords[i], chords[i + 1], assignment)
            IN  /\ movementCost(h, previousSorted(h), candidateSorted(h))
                       = movementOfSharedVoices(h, previousSorted(h), candidateSorted(h))
                /\ total = crossingCost(h, candidateSorted(h))
                           + spacingCost(h, candidateSorted(h))
                           + parallelCost(h, previousSorted(h), candidateSorted(h))
                           + movementOfSharedVoices(h, previousSorted(h), candidateSorted(h))
                /\ total >= 0

\* n * (n - 1) * ... * (n - k + 1) = n! / (n - k)!
RECURSIVE fallingFactorial(_, _)
fallingFactorial(n, k) == IF k = 0 THEN 1 ELSE n * fallingFactorial(n - 1, k - 1)

\* a comes before b in lexicographic order.
lexicographicallyBefore(a, b) ==
    \E x \in DOMAIN a :
        /\ a[x] < b[x]
        /\ \A y \in 1..(x - 1) : a[y] = b[y]

\* The voices 0..N-1 that no fixed note of the current chord carries.
availableVoicesOfCurrentChord ==
    (0..(numVoices - 1))
        \ ({heap[id].voice : id \in Range(chords[i + 1].notes)} \ {Undefined})

\* C22: for a chord with k unfixed notes and n available voices,
\* generateVoiceAssignments returns every sequence of k pairwise distinct
\* available voices exactly once, n!/(n-k)! sequences, in lexicographic order.
C22_AllAssignmentsInLexicographicOrder ==
    atChordWithUnfixedNotes =>
        LET possibleAssignments == generateVoiceAssignments(heap, chords[i + 1], numVoices)
        IN  /\ Range(possibleAssignments) = assignmentsOfDistinctAvailableVoices
            /\ Len(possibleAssignments)
                   = fallingFactorial(Cardinality(availableVoicesOfCurrentChord),
                                      Len(unfixedNotesOfCurrentChord))
            /\ \A x \in 1..(Len(possibleAssignments) - 1) :
                   lexicographicallyBefore(possibleAssignments[x], possibleAssignments[x + 1])

\* C22's case: at least two unfixed notes and more available voices than
\* unfixed notes.
C22_Witness ==
    /\ atChordWithUnfixedNotes
    /\ Len(unfixedNotesOfCurrentChord) >= 2
    /\ Cardinality(availableVoicesOfCurrentChord) > Len(unfixedNotesOfCurrentChord)

\* The notes' fields when optimizeChordVoicing calls adjustOctaves on the
\* current chord, and when that call returns.
heapBeforeAdjustOctaves ==
    commitBestAssignment(heap, chords[i], chords[i + 1], numVoices)

heapAfterAdjustOctaves == adjustOctaves(heapBeforeAdjustOctaves, chords[i + 1])

\* In the current chord b carries the next voice after a's.
adjacentInCurrentChord(h, a, b) ==
    /\ h[a].voice < h[b].voice
    /\ ~\E c \in Range(chords[i + 1].notes) :
           h[a].voice < h[c].voice /\ h[c].voice < h[b].voice

\* C23: after adjustOctaves on a chord whose notes carry pairwise distinct
\* voices, of two notes adjacent in voice-index order the one with the
\* lower voice index has a strictly greater pitch, by at most 12.
C23_AdjustOctavesOrdersAdjacentVoices ==
    (/\ atChordWithUnfixedNotes
     /\ \A a, b \in Range(chords[i + 1].notes) :
            a # b => heapBeforeAdjustOctaves[a].voice # heapBeforeAdjustOctaves[b].voice)
        => \A a, b \in Range(chords[i + 1].notes) :
               adjacentInCurrentChord(heapAfterAdjustOctaves, a, b) =>
                   /\ heapAfterAdjustOctaves[a].pitch > heapAfterAdjustOctaves[b].pitch
                   /\ heapAfterAdjustOctaves[a].pitch - heapAfterAdjustOctaves[b].pitch <= 12

\* C24: when the GlobalOctaveBalancer has run, and when the call returns,
\* adjustOctaves has been called exactly once on every chord.
C24_AdjustOctavesOncePerChord ==
    pc \in {"flatten", "returned"} =>
        \A x \in DOMAIN chords :
            Cardinality({c \in DOMAIN adjustOctavesCalls : adjustOctavesCalls[c] = x}) = 1

\* adjustHarmonyOctaveRelativeToMelody is about to run.
beforeBalancer == pc = "loop" /\ i >= Len(chords)

melodyTagged == {id \in DOMAIN heap : heap[id].voice = 0}

harmonyTagged == {id \in DOMAIN heap : heap[id].voice # 0 /\ heap[id].voice # Undefined}

\* (minimum pitch of the melody-tagged notes) - (maximum pitch of the
\* harmony notes), over the whole piece.
melodyHarmonyGap ==
    Min({heap[id].pitch : id \in melodyTagged}) - Max({heap[id].pitch : id \in harmonyTagged})

\* C25: the balancer adds 12 * floor((gap - 1) / 12) to the pitch of every
\* harmony note when gap > 12 and changes nothing otherwise, nor when there
\* is no melody-tagged or no harmony note; a second run changes nothing.
C25_BalancerShiftsHarmonyByOctaves ==
    beforeBalancer =>
        LET after == adjustHarmonyOctaveRelativeToMelody(heap, chords)
        IN  /\ IF melodyTagged # {} /\ harmonyTagged # {} /\ melodyHarmonyGap > 12
               THEN \A id \in DOMAIN heap :
                        after[id] =
                            IF id \in harmonyTagged
                            THEN [heap[id] EXCEPT
                                     !.pitch = @ + 12 * ((melodyHarmonyGap - 1) \div 12)]
                            ELSE heap[id]
               ELSE after = heap
            /\ adjustHarmonyOctaveRelativeToMelody(after, chords) = after

\* C25's case: the balancer is about to run on a gap that is a multiple of
\* 12 above 12, with two harmony notes of different pitch.
C25_Witness ==
    /\ beforeBalancer
    /\ melodyTagged # {}
    /\ harmonyTagged # {}
    /\ melodyHarmonyGap > 12
    /\ melodyHarmonyGap % 12 = 0
    /\ \E a, b \in harmonyTagged : heap[a].pitch # heap[b].pitch

\* C26: the returned array holds exactly one note for each input note, with
\* the position and duration of its input note, and the notes of one chord
\* are contiguous, the chords in ascending position order.
C26_OneOutputNotePerInputNote ==
    Returned =>
        /\ Len(result) = Len(melodyNotes) + Len(harmonyNotes)
        /\ {sourceOf(j) : j \in DOMAIN result} = DOMAIN input
        /\ \A j \in DOMAIN result :
               /\ result[j].position = input[sourceOf(j)].position
               /\ result[j].duration = input[sourceOf(j)].duration
        /\ \A j, k \in DOMAIN result :
               j < k => result[j].position <= result[k].position

\* C26's case: two chords have been returned, one of several notes, for an
\* input whose first note is at the later position.
C26_Witness ==
    /\ Returned
    /\ Len(result) >= 3
    /\ Len(chords) = 2
    /\ input[1].position > input[Len(input)].position

\* The notes of the chords that have been processed.
processedNotes ==
    CASE pc = "loop" -> {id \in DOMAIN heap : \E x \in 1..i : id \in Range(chords[x].notes)}
      [] pc \in {"flatten", "returned"} -> DOMAIN heap
      [] OTHER -> {}

\* C27: no step changes the voice of a note of a processed chord, and only
\* the GlobalOctaveBalancer changes the pitch of one.
C27_ProcessedChordsAreStable ==
    [][\A id \in processedNotes :
           /\ heap'[id].voice = heap[id].voice
           /\ heap'[id].pitch # heap[id].pitch => beforeBalancer]_vars

\* C27's case: a third chord with unfixed notes is about to be processed
\* after a second chord that has been normalized.
C27_Witness ==
    /\ atChordWithUnfixedNotes
    /\ i = 2
    /\ \E c \in DOMAIN adjustOctavesCalls : adjustOctavesCalls[c] = 2

\* The call has a statement to run next.
hasNextStatement ==
    pc \in {"identifyChords", "determineVoiceCount", "assignVoicesToFirstChord",
            "loop", "flatten"}

\* The statements of optimizeVoiceLeading still ahead, and the iterations of
\* its for loop still ahead.
statementsLeft ==
    CASE pc = "identifyChords" -> 5
      [] pc = "determineVoiceCount" -> 4
      [] pc = "assignVoicesToFirstChord" -> 3
      [] pc = "loop" -> 2
      [] pc = "flatten" -> 1
      [] OTHER -> 0

iterationsLeft == IF pc = "loop" THEN Len(chords) - i ELSE 0

\* C28: a call with at least one note terminates and returns: until it has
\* returned it always has a next statement, no statement raises an error,
\* and every step (each a finite evaluation of the permutation enumeration,
\* the search, the bass-lowering loop) leaves fewer statements or fewer loop
\* iterations ahead, of which there are never less than none.
C28_CallWithNotesReturns ==
    /\ []((melodyNotes # <<>> \/ harmonyNotes # <<>>) =>
              /\ Returned \/ hasNextStatement
              /\ iterationsLeft >= 0)
    /\ [][(melodyNotes # <<>> \/ harmonyNotes # <<>>) =>
              \/ statementsLeft' < statementsLeft
              \/ /\ statementsLeft' = statementsLeft
                 /\ iterationsLeft' < iterationsLeft]_vars

\* C28's case: a call has returned that searched the assignments of a chord
\* among three or more voices and lowered a bass note.
C28_Witness ==
    /\ Returned
    /\ numVoices >= 3
    /\ adjustOctavesCalls # <<>>
    /\ \E j \in DOMAIN result : result[j].pitch < input[sourceOf(j)].pitch

\* The dialog has written the result back.
writtenBack == pc = "closed"

\* C29: after the write-back every harmony note of the optimizer's output
\* whose pitch has a name in allNotes is in the harmony layer, and the melody
\* layer and the other layers are as they were.
C29_OnlyUndisplayableHarmonyNotesAreDropped ==
    writtenBack =>
        /\ \A j \in DOMAIN result :
               (fromHarmony(j) /\ pitchToNoteName(result[j].pitch) \in allNotes) =>
                   \E x \in DOMAIN layers.harmony :
                       /\ layers.harmony[x].note = pitchToNoteName(result[j].pitch)
                       /\ layers.harmony[x].column = result[j].position
                       /\ layers.harmony[x].units = result[j].duration
        /\ [x \in DOMAIN layers.melody |->
               [pitch |-> getMidiNumber(layers.melody[x].note),
                position |-> layers.melody[x].column,
                duration |-> layers.melody[x].units,
                voice |-> layers.melody[x].voice]]
               = [x \in DOMAIN melodyNotes |-> input[melodyNotes[x]]]
        /\ layers.other = OtherLayerNotes

\* C30: a playback loop does not sound a column once handleStop has run
\* after its start, whatever handlePlay does before its pending timer
\* fires, so at most one loop is advancing.
C30_StoppedLoopDoesNotAdvance ==
    pc = "useControls" =>
        \A k \in DOMAIN controls.loops : ~controls.loops[k].advancedAfterStop

====
